---- MODULE Spec2Model ----
(***************************************************************************)
(* PatroSum (src/main.c): the game control loop of the addition quiz.      *)
(* One action of the model is one iteration of the while(true) loop of     *)
(* main(): the switch on currentGameState followed by the conditional      *)
(* render pass.  The keypad is the environment: a key is physically        *)
(* pressed and released between iterations, and keypadScan() reports the   *)
(* level of the matrix at the moment of the scan.                          *)
(* Characters are their ASCII codes, so that the comparisons of the code   *)
(* (key >= '0' && key <= '9') are the comparisons of the model.            *)
(***************************************************************************)
EXTENDS Integers, Naturals, Sequences, FiniteSets, TLC

VARIABLES currentGameState, num1, num2, correctAnswer, questionStr,
          answerBuffer, questionY, keyDown, evt, len, playerAnswer, tones,
          leds, display, renders, blinks, fired, accepted, seen, missed,
          dropped

vars == <<currentGameState, num1, num2, correctAnswer, questionStr,
          answerBuffer, questionY, keyDown, evt, len, playerAnswer, tones,
          leds, display, renders, blinks, fired, accepted, seen, missed,
          dropped>>

question == <<num1, num2, correctAnswer, questionStr>>

(* ------------------------------ bounds --------------------------------- *)

\* how many keys of the matrix the player uses (the first NumKeys of KeyOrder)
NumKeys == 5

\* how many results of rand() are drawn from (the first NumRand of RandSamples)
NumRand == 3

\* the count of scan cycles that served one physical press saturates here
MaxFired == 2

\* how many keys the player uses where progress of the loop is checked (the
\* first NumLiveKeys of LiveKeyOrder)
NumLiveKeys == 2

\* how many digits the answers are written with where atoi() is checked on
\* every answer (the first NumAtoiDigits of AtoiDigitOrder)
NumAtoiDigits == 3

(* --------------------------- program constants ------------------------- *)

GENERATE_NEW_QUESTION == "GENERATE_NEW_QUESTION"
WAITING_FOR_INPUT == "WAITING_FOR_INPUT"
CHECK_ANSWER == "CHECK_ANSWER"

GameState == {GENERATE_NEW_QUESTION, WAITING_FOR_INPUT, CHECK_ANSWER}

\* sizeof(answerBuffer)
BufSize == 10

\* rand() % 1000
OperandModulus == 1000

\* questionY = 20, and the resting position of the question with no answer
QuestionYBase == 20

\* the resting position of the question while an answer is being typed
QuestionYTyping == 12

\* keypad_key_map[row][col]; rows and columns are 0-based in the code
keypad_key_map ==
  << <<49, 50, 51, 65>>,
     <<52, 53, 54, 66>>,
     <<55, 56, 57, 67>>,
     <<42, 48, 35, 68>> >>

KeyAt(row, col) == keypad_key_map[row + 1][col + 1]

\* the positions <<row, col>> the player presses, in the order the bound adds them:
\* '7', '5', 'A', '*', '#', 'B', 'C', 'D', then the remaining digits
KeyOrder ==
  << <<2, 0>>, <<1, 1>>, <<0, 3>>, <<3, 0>>, <<3, 2>>, <<1, 3>>, <<2, 3>>,
     <<3, 3>>, <<3, 1>>, <<0, 0>>, <<0, 1>>, <<0, 2>>, <<1, 0>>, <<1, 2>>,
     <<2, 1>>, <<2, 2>> >>

Min(a, b) == IF a < b THEN a ELSE b

PressableKeys == {KeyOrder[i] : i \in 1..Min(NumKeys, Len(KeyOrder))}

\* the same positions in another order: 'A', '7', '*', '#', '5', ...
LiveKeyOrder ==
  << <<0, 3>>, <<2, 0>>, <<3, 0>>, <<3, 2>>, <<1, 1>>, <<1, 3>>, <<2, 3>>,
     <<3, 3>>, <<3, 1>>, <<0, 0>>, <<0, 1>>, <<0, 2>>, <<1, 0>>, <<1, 2>>,
     <<2, 1>>, <<2, 2>> >>

LiveKeys == {LiveKeyOrder[i] : i \in 1..Min(NumLiveKeys, Len(LiveKeyOrder))}

\* results of rand(): 0 <= rand() <= RAND_MAX = 2^31 - 1
RandSamples == <<1075, 0, 1999, 2147483647, 70, 5>>

RandValues == {RandSamples[i] : i \in 1..Min(NumRand, Len(RandSamples))}

(* ------------------------------ helpers -------------------------------- *)

\* memset(answerBuffer, 0, sizeof(answerBuffer))
ZeroBuffer == [i \in 0..(BufSize - 1) |-> 0]

\* strlen(): the index of the first NUL; BufSize when the array holds none
Strlen(buf) ==
  IF \E i \in DOMAIN buf : buf[i] = 0
  THEN CHOOSE i \in DOMAIN buf : buf[i] = 0 /\ \A j \in DOMAIN buf : j < i => buf[j] # 0
  ELSE BufSize

\* buf[i] = v; a store outside the array leaves the array as it is
Store(buf, i, v) == [j \in DOMAIN buf |-> IF j = i THEN v ELSE buf[j]]

\* the characters before the terminator, as a sequence
Chars(buf) == [i \in 1..Strlen(buf) |-> buf[i - 1]]

IsDigit(key) == key >= 48 /\ key <= 57

\* acc * 10 + d in a 16-bit int
MulAdd16(acc, d) == ((acc * 10 + d + 32768) % 65536) - 32768

\* acc * 10 + d in a 32-bit int: computed on two 16-bit halves and read back
\* as a two's complement number
\* (a, lo and hi are bound one after the other, so that each is computed once)
MulAdd32(acc, d) ==
  CHOOSE r \in
    UNION { UNION { { IF hi >= 32768
                      THEN (hi - 65536) * 65536 + (lo % 65536)
                      ELSE hi * 65536 + (lo % 65536) :
                      hi \in {(((a \div 65536) % 65536) * 10 + (lo \div 65536)) % 65536} } :
                    lo \in {(a % 65536) * 10 + d} } :
            a \in {acc} } : TRUE

\* atoi() on a buffer that holds no blank and no sign: the leading digits, base 10
RECURSIVE AtoiFrom(_, _, _)
AtoiFrom(buf, i, acc) ==
  IF i < BufSize /\ IsDigit(buf[i])
  THEN AtoiFrom(buf, i + 1, MulAdd32(acc, buf[i] - 48))
  ELSE acc

\* atoi() that starts at the second character
AtoiSkipsFirst(buf) == AtoiFrom(buf, 1, 0)

Atoi(buf) == AtoiFrom(buf, 0, 0)

Abs(x) == IF x < 0 THEN -x ELSE x

\* approach(current, target, maxDelta) of approach.h
approach(current, target, maxDelta) ==
  IF Abs(target - current) <= maxDelta
  THEN target
  ELSE IF target > current THEN current + maxDelta ELSE current - maxDelta

NoEvent == [pressed |-> FALSE, row |-> 0, col |-> 0]

\* keypadScan(): the key that is down at the moment of the scan
keypadScan == keyDown

\* the LED channels: driven by pulseLed() ("pulse") or held at the levels
\* given to setLedBrightness() ("level")
LedsPulsing == [mode |-> "pulse", red |-> 0, green |-> 0, blue |-> 0]

LedsLevel(r, g, b) == [mode |-> "level", red |-> r, green |-> g, blue |-> b]

\* what showDisplay() last put on the screen; resp is the number drawn after
\* "Resp: " and -1 where none is drawn
WelcomeScreen == [screen |-> "welcome", text |-> "PatroSum", resp |-> -1]

QuestionScreen == [screen |-> "question", text |-> "Resolva a conta:", resp |-> -1]

ResultScreen(text, resp) == [screen |-> "result", text |-> text, resp |-> resp]

(* ----------------------------- operations ------------------------------ *)

\* generateQuestion() with the "% 1000" left out
generateQuestionNoModulus(r1, r2) ==
  [num1 |-> r1, num2 |-> r2, correctAnswer |-> r1 + r2,
   questionStr |-> <<r1, r2>>]

\* generateQuestion() with the two results r1, r2 of rand()
generateQuestion(r1, r2) ==
  LET n1 == r1 % OperandModulus
      n2 == r2 % OperandModulus
  IN  [num1 |-> n1, num2 |-> n2, correctAnswer |-> n1 + n2,
       questionStr |-> <<n1, n2>>]

\* the chain with 'A' honoured only once something has been typed
KeyBranchCheckNeedsInput(key, n) ==
  IF key >= 48 /\ key <= 57 /\ n < BufSize - 1 THEN "append"
  ELSE IF key = 65 /\ n > 0 THEN "check"
  ELSE IF key = 42 THEN "clear"
  ELSE "ignore"

\* the chain with the digit test reduced to key <= '9'
KeyBranchNoLowerBound(key, n) ==
  IF key <= 57 /\ n < BufSize - 1 THEN "append"
  ELSE IF key = 65 THEN "check"
  ELSE IF key = 42 THEN "clear"
  ELSE "ignore"

\* the chain with the length test len < sizeof(answerBuffer)
KeyBranchOffByOne(key, n) ==
  IF key >= 48 /\ key <= 57 /\ n < BufSize THEN "append"
  ELSE IF key = 65 THEN "check"
  ELSE IF key = 42 THEN "clear"
  ELSE "ignore"

\* the chain with the clear bound to '#' instead of '*'
KeyBranchHashClears(key, n) ==
  IF key >= 48 /\ key <= 57 /\ n < BufSize - 1 THEN "append"
  ELSE IF key = 65 THEN "check"
  ELSE IF key = 35 THEN "clear"
  ELSE "ignore"

\* the chain with the clear as a plain else
KeyBranchElseClears(key, n) ==
  IF key >= 48 /\ key <= 57 /\ n < BufSize - 1 THEN "append"
  ELSE IF key = 65 THEN "check"
  ELSE "clear"

\* the if / else if chain on the scanned key
KeyBranch(key, n) ==
  IF key >= 48 /\ key <= 57 /\ n < BufSize - 1 THEN "append"
  ELSE IF key = 65 THEN "check"
  ELSE IF key = 42 THEN "clear"
  ELSE "ignore"

\* the two stores one place too far
AppendKeyOffByOne(buf, n, key) == Store(Store(buf, n + 1, key), n + 2, 0)

\* answerBuffer[len] = key; answerBuffer[len + 1] = '\0'
AppendKey(buf, n, key) == Store(Store(buf, n, key), n + 1, 0)

\* the comparison as playerAnswer >= correctAnswer
IsCorrectAtLeast(player, answer) == player >= answer

\* playerAnswer == correctAnswer
IsCorrect(player, answer) == player = answer

\* the render pass with approach(questionY, _newQuestionY, 2)
RenderQuestionYStep2(state, y, buf) ==
  IF state = WAITING_FOR_INPUT
  THEN approach(y, IF Strlen(buf) > 0 THEN QuestionYTyping ELSE QuestionYBase, 2)
  ELSE y

\* the render pass after the switch: the new questionY
RenderQuestionY(state, y, buf) ==
  IF state = WAITING_FOR_INPUT
  THEN approach(y, IF Strlen(buf) > 0 THEN QuestionYTyping ELSE QuestionYBase, 1)
  ELSE y

\* the render pass run whatever the state is
RenderDisplayAlways(state, shown) == QuestionScreen

\* the render pass after the switch: what the screen shows
RenderDisplay(state, shown) ==
  IF state = WAITING_FOR_INPUT THEN QuestionScreen ELSE shown

\* how many times the render pass runs in an iteration that leaves the switch
\* in the given state
RenderCount(state) == IF state = WAITING_FOR_INPUT THEN 1 ELSE 0

\* blink_led_red(times, delay_ms): the for loop from i on; the value is the
\* number of on/off cycles done when the loop is left
RECURSIVE BlinkFrom(_, _, _)
BlinkFrom(i, times, done) ==
  IF i < times THEN BlinkFrom(i + 1, times, done + 1) ELSE done

blink_led_red(times, delay_ms) == BlinkFrom(0, times, 0)

\* case CHECK_ANSWER left without the assignment of the next state
StateAfterCheckStays == CHECK_ANSWER

\* currentGameState = GENERATE_NEW_QUESTION at the end of case CHECK_ANSWER
StateAfterCheck == GENERATE_NEW_QUESTION

(* ------------------------------- state --------------------------------- *)

\* the globals as the loader zeroes them, setup(), and the welcome screen
Init ==
  /\ currentGameState = GENERATE_NEW_QUESTION
  /\ num1 = 0
  /\ num2 = 0
  /\ correctAnswer = 0
  /\ questionStr = <<>>
  /\ answerBuffer = ZeroBuffer
  /\ questionY = QuestionYBase
  /\ keyDown = NoEvent
  /\ evt = NoEvent
  /\ len = 0
  /\ playerAnswer = 0
  /\ tones = <<>>
  /\ leds = LedsLevel(0, 0, 0)
  /\ display = WelcomeScreen
  /\ renders = 0
  /\ blinks = 0
  /\ fired = 0
  /\ accepted = <<>>
  /\ seen = FALSE
  /\ missed = NoEvent
  /\ dropped = "no"

\* the player puts a finger on one of the given keys
PressKeyOf(keys) ==
  /\ ~keyDown.pressed
  /\ \E k \in keys :
       keyDown' = [pressed |-> TRUE, row |-> k[1], col |-> k[2]]
  /\ fired' = 0
  /\ seen' = FALSE
  /\ missed' = NoEvent
  /\ dropped' = "no"
  /\ UNCHANGED <<currentGameState, num1, num2, correctAnswer, questionStr,
                 answerBuffer, questionY, evt, len, playerAnswer, tones, leds,
                 display, renders, blinks, accepted>>

PressKey == PressKeyOf(PressableKeys)

PressKeyLive == PressKeyOf(LiveKeys)

\* the player lifts the finger; a press that no scan has reported is missed
ReleaseKey ==
  /\ keyDown.pressed
  /\ keyDown' = NoEvent
  /\ fired' = 0
  /\ seen' = FALSE
  /\ missed' = IF seen THEN NoEvent ELSE keyDown
  /\ dropped' = "no"
  /\ UNCHANGED <<currentGameState, num1, num2, correctAnswer, questionStr,
                 answerBuffer, questionY, evt, len, playerAnswer, tones, leds,
                 display, renders, blinks, accepted>>

\* a loop iteration has run since the missed press, if there is one: the press
\* fell into the settle delay between two scans ("settle") or into an iteration
\* that does not scan, the result display among them ("window")
LoopGhosts ==
  /\ missed' = NoEvent
  /\ dropped' = IF ~missed.pressed THEN dropped
                ELSE IF currentGameState = WAITING_FOR_INPUT THEN "settle"
                ELSE "window"

\* case GENERATE_NEW_QUESTION without the memset of the previous answer
GenerateNewQuestionNoClear ==
  /\ currentGameState = GENERATE_NEW_QUESTION
  /\ \E r1, r2 \in RandValues :
       LET q == generateQuestion(r1, r2)
       IN  /\ num1' = q.num1
           /\ num2' = q.num2
           /\ correctAnswer' = q.correctAnswer
           /\ questionStr' = q.questionStr
  /\ answerBuffer' = answerBuffer
  /\ currentGameState' = WAITING_FOR_INPUT
  /\ questionY' = RenderQuestionY(WAITING_FOR_INPUT, QuestionYBase, answerBuffer)
  /\ display' = RenderDisplay(WAITING_FOR_INPUT, display)
  /\ renders' = RenderCount(WAITING_FOR_INPUT)
  /\ evt' = NoEvent
  /\ len' = 0
  /\ playerAnswer' = 0
  /\ tones' = <<>>
  /\ blinks' = 0
  /\ accepted' = <<>>
  /\ LoopGhosts
  /\ UNCHANGED <<keyDown, leds, fired, seen>>

\* one loop iteration in case GENERATE_NEW_QUESTION
GenerateNewQuestion ==
  /\ currentGameState = GENERATE_NEW_QUESTION
  /\ \E r1, r2 \in RandValues :
       LET q == generateQuestion(r1, r2)
       IN  /\ num1' = q.num1
           /\ num2' = q.num2
           /\ correctAnswer' = q.correctAnswer
           /\ questionStr' = q.questionStr
  /\ answerBuffer' = ZeroBuffer
  /\ currentGameState' = WAITING_FOR_INPUT
  /\ questionY' = RenderQuestionY(WAITING_FOR_INPUT, QuestionYBase, ZeroBuffer)
  /\ display' = RenderDisplay(WAITING_FOR_INPUT, display)
  /\ renders' = RenderCount(WAITING_FOR_INPUT)
  /\ evt' = NoEvent
  /\ len' = 0
  /\ playerAnswer' = 0
  /\ tones' = <<>>
  /\ blinks' = 0
  /\ accepted' = <<>>
  /\ LoopGhosts
  /\ UNCHANGED <<keyDown, leds, fired, seen>>

\* one loop iteration in case WAITING_FOR_INPUT
WaitingForInput ==
  /\ currentGameState = WAITING_FOR_INPUT
  /\ LET e == keypadScan
         key == KeyAt(e.row, e.col)
         n == Strlen(answerBuffer)
         branch == IF e.pressed THEN KeyBranch(key, n) ELSE "none"
         buf == CASE branch = "append" -> AppendKey(answerBuffer, n, key)
                  [] branch = "clear" -> ZeroBuffer
                  [] OTHER -> answerBuffer
         state == IF branch = "check" THEN CHECK_ANSWER ELSE WAITING_FOR_INPUT
     IN  /\ evt' = e
         /\ len' = IF e.pressed THEN n ELSE 0
         /\ answerBuffer' = buf
         /\ currentGameState' = state
         /\ tones' = CASE branch = "append" -> <<440>>
                       [] branch = "clear" -> <<220>>
                       [] OTHER -> <<>>
         /\ fired' = IF branch \in {"append", "check", "clear"}
                      THEN Min(fired + 1, MaxFired)
                      ELSE fired
         /\ accepted' = CASE branch = "append" -> Append(accepted, key)
                          [] branch = "clear" -> <<>>
                          [] OTHER -> accepted
         /\ questionY' = RenderQuestionY(state, questionY, buf)
         /\ display' = RenderDisplay(state, display)
         /\ renders' = RenderCount(state)
  /\ leds' = LedsPulsing
  /\ blinks' = 0
  /\ seen' = (seen \/ keyDown.pressed)
  /\ LoopGhosts
  /\ UNCHANGED <<num1, num2, correctAnswer, questionStr, keyDown, playerAnswer>>

\* case CHECK_ANSWER with a scan of the keypad in it
CheckAnswerScans ==
  /\ currentGameState = CHECK_ANSWER
  /\ LET answer == Atoi(answerBuffer)
     IN  /\ playerAnswer' = answer
         /\ IF IsCorrect(answer, correctAnswer)
            THEN /\ leds' = LedsLevel(0, 255, 0)
                 /\ tones' = <<523, 659, 784>>
                 /\ blinks' = 0
                 /\ display' = RenderDisplay(StateAfterCheck,
                                             ResultScreen("Correto! :)", -1))
            ELSE /\ leds' = LedsLevel(255, 0, 0)
                 /\ tones' = <<261>>
                 /\ blinks' = blink_led_red(3, 150)
                 /\ display' = RenderDisplay(StateAfterCheck,
                                             ResultScreen("Errado! :(", correctAnswer))
  /\ currentGameState' = StateAfterCheck
  /\ questionY' = RenderQuestionY(StateAfterCheck, questionY, answerBuffer)
  /\ renders' = RenderCount(StateAfterCheck)
  /\ evt' = keypadScan
  /\ len' = 0
  /\ LoopGhosts
  /\ UNCHANGED <<num1, num2, correctAnswer, questionStr, answerBuffer,
                 keyDown, fired, accepted, seen>>

\* case CHECK_ANSWER with generateQuestion() called before the comparison
CheckAnswerRegenerates ==
  /\ currentGameState = CHECK_ANSWER
  /\ \E r1, r2 \in RandValues :
       LET q == generateQuestion(r1, r2)
           answer == Atoi(answerBuffer)
       IN  /\ num1' = q.num1
           /\ num2' = q.num2
           /\ correctAnswer' = q.correctAnswer
           /\ questionStr' = q.questionStr
           /\ playerAnswer' = answer
           /\ IF IsCorrect(answer, q.correctAnswer)
              THEN /\ leds' = LedsLevel(0, 255, 0)
                   /\ tones' = <<523, 659, 784>>
                   /\ blinks' = 0
                   /\ display' = RenderDisplay(StateAfterCheck,
                                               ResultScreen("Correto! :)", -1))
              ELSE /\ leds' = LedsLevel(255, 0, 0)
                   /\ tones' = <<261>>
                   /\ blinks' = blink_led_red(3, 150)
                   /\ display' = RenderDisplay(StateAfterCheck,
                                               ResultScreen("Errado! :(", q.correctAnswer))
  /\ currentGameState' = StateAfterCheck
  /\ questionY' = RenderQuestionY(StateAfterCheck, questionY, answerBuffer)
  /\ renders' = RenderCount(StateAfterCheck)
  /\ evt' = NoEvent
  /\ len' = 0
  /\ LoopGhosts
  /\ UNCHANGED <<answerBuffer, keyDown, fired, accepted, seen>>

\* one loop iteration in case CHECK_ANSWER
CheckAnswer ==
  /\ currentGameState = CHECK_ANSWER
  /\ LET answer == Atoi(answerBuffer)
     IN  /\ playerAnswer' = answer
         /\ IF IsCorrect(answer, correctAnswer)
            THEN /\ leds' = LedsLevel(0, 255, 0)
                 /\ tones' = <<523, 659, 784>>
                 /\ blinks' = 0
                 /\ display' = RenderDisplay(StateAfterCheck,
                                             ResultScreen("Correto! :)", -1))
            ELSE /\ leds' = LedsLevel(255, 0, 0)
                 /\ tones' = <<261>>
                 /\ blinks' = blink_led_red(3, 150)
                 /\ display' = RenderDisplay(StateAfterCheck,
                                             ResultScreen("Errado! :(", correctAnswer))
  /\ currentGameState' = StateAfterCheck
  /\ questionY' = RenderQuestionY(StateAfterCheck, questionY, answerBuffer)
  /\ renders' = RenderCount(StateAfterCheck)
  /\ evt' = NoEvent
  /\ len' = 0
  /\ LoopGhosts
  /\ UNCHANGED <<num1, num2, correctAnswer, questionStr, answerBuffer,
                 keyDown, fired, accepted, seen>>

Next ==
  \/ PressKey
  \/ ReleaseKey
  \/ GenerateNewQuestion
  \/ WaitingForInput
  \/ CheckAnswer

Spec == Init /\ [][Next]_vars

\* the loop always runs; the player may stop pressing keys
FairSpec == Spec /\ WF_vars(GenerateNewQuestion) /\ WF_vars(WaitingForInput)
                 /\ WF_vars(CheckAnswer)

\* the loop with a player who uses few keys
LiveNext ==
  \/ PressKeyLive
  \/ ReleaseKey
  \/ GenerateNewQuestion
  \/ WaitingForInput
  \/ CheckAnswer

\* the loop always runs (sleep_ms returns); the player may stop at any time
LiveSpec == Init /\ [][LiveNext]_vars /\ WF_vars(GenerateNewQuestion)
                 /\ WF_vars(WaitingForInput) /\ WF_vars(CheckAnswer)

\* the digits '0', '4', '2', '9', ... of the answers given to atoi()
AtoiDigitOrder == <<48, 52, 50, 57, 49, 51, 53, 54, 55, 56>>

AtoiDigits == {AtoiDigitOrder[i] : i \in 1..Min(NumAtoiDigits, Len(AtoiDigitOrder))}

\* the buffer that holds the digits of s and then NULs
BufferOf(s) == [i \in 0..(BufSize - 1) |-> IF i < Len(s) THEN s[i + 1] ELSE 0]

\* the program at the start of a CHECK_ANSWER iteration: 'A' has just been
\* scanned, with any answer of up to nine digits in the buffer
AtoiInit ==
  /\ currentGameState = CHECK_ANSWER
  /\ LET q == generateQuestion(RandSamples[1], RandSamples[2])
     IN  /\ num1 = q.num1
         /\ num2 = q.num2
         /\ correctAnswer = q.correctAnswer
         /\ questionStr = q.questionStr
  /\ \E n \in 0..(BufSize - 1) : \E s \in [1..n -> AtoiDigits] :
       /\ answerBuffer = BufferOf(s)
       /\ accepted = s
       /\ len = n
       /\ questionY = IF n > 0 THEN QuestionYTyping ELSE QuestionYBase
  /\ keyDown = [pressed |-> TRUE, row |-> 0, col |-> 3]
  /\ evt = [pressed |-> TRUE, row |-> 0, col |-> 3]
  /\ playerAnswer = 0
  /\ tones = <<>>
  /\ leds = LedsPulsing
  /\ display = QuestionScreen
  /\ renders = 0
  /\ blinks = 0
  /\ fired = 1
  /\ seen = TRUE
  /\ missed = NoEvent
  /\ dropped = "no"

\* the CHECK_ANSWER iteration on each of these answers
AtoiNext == CheckAnswer

AtoiSpec == AtoiInit /\ [][AtoiNext]_vars

TypeOK ==
  /\ currentGameState \in GameState
  /\ num1 \in Nat /\ num2 \in Nat /\ correctAnswer \in Nat
  /\ answerBuffer \in [0..(BufSize - 1) -> 0..127]
  /\ questionY \in Int
  /\ keyDown.pressed \in BOOLEAN /\ evt.pressed \in BOOLEAN
  /\ len \in 0..BufSize
  /\ playerAnswer \in Int
  /\ renders \in 0..1
  /\ blinks \in 0..3
  /\ fired \in 0..MaxFired
  /\ seen \in BOOLEAN /\ missed.pressed \in BOOLEAN
  /\ dropped \in {"no", "settle", "window"}

(* ------------------------------ properties ----------------------------- *)

\* the key under the finger, and the key the last scan reported
DownKey == KeyAt(keyDown.row, keyDown.col)

EvtKey == KeyAt(evt.row, evt.col)

\* a step of the loop leaves the keypad as it is; a step of the player does not
LoopStep == keyDown' = keyDown

\* the base-10 value of a sequence of digit characters
RECURSIVE DecimalValue(_)
DecimalValue(s) ==
  IF s = <<>> THEN 0
  ELSE DecimalValue(SubSeq(s, 1, Len(s) - 1)) * 10 + (s[Len(s)] - 48)

\* C1: the machine starts in GENERATE_NEW_QUESTION; the state changes only
\* GENERATE_NEW_QUESTION -> WAITING_FOR_INPUT, WAITING_FOR_INPUT -> CHECK_ANSWER
\* and CHECK_ANSWER -> GENERATE_NEW_QUESTION; the first and the last are taken by
\* every loop iteration in that state, the second exactly by the iterations that
\* scan 'A', whatever the buffer holds.
C1_StateStep ==
  /\ currentGameState' # currentGameState =>
       \/ /\ currentGameState = GENERATE_NEW_QUESTION
          /\ currentGameState' = WAITING_FOR_INPUT
       \/ /\ currentGameState = WAITING_FOR_INPUT
          /\ currentGameState' = CHECK_ANSWER
          /\ LoopStep /\ keyDown.pressed /\ DownKey = 65
       \/ /\ currentGameState = CHECK_ANSWER
          /\ currentGameState' = GENERATE_NEW_QUESTION
  /\ (LoopStep /\ currentGameState = GENERATE_NEW_QUESTION) =>
       currentGameState' = WAITING_FOR_INPUT
  /\ (LoopStep /\ currentGameState = CHECK_ANSWER) =>
       currentGameState' = GENERATE_NEW_QUESTION
  /\ (LoopStep /\ currentGameState = WAITING_FOR_INPUT
        /\ keyDown.pressed /\ DownKey = 65) =>
       currentGameState' = CHECK_ANSWER

C1_Transitions ==
  (currentGameState = GENERATE_NEW_QUESTION) /\ [][C1_StateStep]_vars

\* 'A' has been scanned with a full buffer and the machine went to CHECK_ANSWER
C1_Witness ==
  /\ currentGameState = CHECK_ANSWER
  /\ evt.pressed /\ EvtKey = 65
  /\ len = BufSize - 1

\* C2: the game acts at most once on one physical press: a key held down over
\* several scan cycles is served by one of them only.
C2_HeldKeyFiresOnce == fired <= 1

\* C3: a CHECK_ANSWER iteration takes the success presentation exactly when
\* the decimal value of the buffer equals correctAnswer, and the failure
\* presentation, showing correctAnswer, otherwise.
C3_CheckStep ==
  (LoopStep /\ currentGameState = CHECK_ANSWER) =>
    IF DecimalValue(Chars(answerBuffer)) = correctAnswer
    THEN /\ display' = ResultScreen("Correto! :)", -1)
         /\ leds' = LedsLevel(0, 255, 0)
         /\ tones' = <<523, 659, 784>>
    ELSE /\ display' = ResultScreen("Errado! :(", correctAnswer)
         /\ leds'.mode = "level" /\ leds'.red = 255
         /\ tones' = <<261>>

C3_ExactComparison == [][C3_CheckStep]_vars

\* the answer "75" to 75 + 0 or 0 + 75 has been found correct
C3_Witness ==
  /\ currentGameState = GENERATE_NEW_QUESTION
  /\ display = ResultScreen("Correto! :)", -1)
  /\ Chars(answerBuffer) = <<55, 53>>
  /\ correctAnswer = 75

\* C4: the buffer holds only '0'..'9' before its terminator, and the
\* terminator is within the 10 bytes: the length is at most 9.
C4_BufferInvariant ==
  /\ Strlen(answerBuffer) <= BufSize - 1
  /\ \A i \in 0..(BufSize - 1) : i < Strlen(answerBuffer) => IsDigit(answerBuffer[i])

\* nine digits are in the buffer
C4_Witness == Strlen(answerBuffer) = BufSize - 1 /\ currentGameState = WAITING_FOR_INPUT

\* C5, as stated: the buffer never gets longer than 8 characters.
C5_AtMostEight == Strlen(answerBuffer) <= BufSize - 2

\* C5, amended: the buffer grows only by a scanned digit, only from a length
\* below 9 (sizeof(answerBuffer) - 1), by one character, and never beyond 9.
C5_GrowStep ==
  Strlen(answerBuffer') > Strlen(answerBuffer) =>
    /\ LoopStep /\ currentGameState = WAITING_FOR_INPUT
    /\ keyDown.pressed /\ IsDigit(DownKey)
    /\ Strlen(answerBuffer) < BufSize - 1
    /\ Strlen(answerBuffer') = Strlen(answerBuffer) + 1
    /\ Strlen(answerBuffer') <= BufSize - 1

C5_AppendBelowNine == [][C5_GrowStep]_vars

\* the ninth digit has just been accepted
C5_Witness ==
  /\ evt.pressed /\ IsDigit(EvtKey)
  /\ len = BufSize - 2
  /\ Strlen(answerBuffer) = BufSize - 1
  /\ tones = <<440>>

\* C6: a digit scanned in WAITING_FOR_INPUT with the buffer not full is put at
\* the end of the buffer, with the 440 Hz tone, the state and the question
\* unchanged; the buffer is the sequence of the digits accepted since the last
\* clear or new question.
C6_DigitStep ==
  (LoopStep /\ currentGameState = WAITING_FOR_INPUT /\ keyDown.pressed
     /\ IsDigit(DownKey) /\ Strlen(answerBuffer) < BufSize - 1) =>
    /\ Chars(answerBuffer') = Append(Chars(answerBuffer), DownKey)
    /\ tones' = <<440>>
    /\ currentGameState' = WAITING_FOR_INPUT
    /\ question' = question

C6_DigitAppended ==
  [](Chars(answerBuffer) = accepted)
  /\ [][C6_DigitStep]_vars

\* '7' then '5' on an empty buffer
C6_Witness ==
  /\ currentGameState = WAITING_FOR_INPUT
  /\ Chars(answerBuffer) = <<55, 53>>
  /\ evt.pressed /\ EvtKey = 53 /\ len = 1
  /\ tones = <<440>>

\* C7: a digit scanned with nine digits in the buffer changes neither the
\* buffer nor the state and plays no tone.
C7_OverflowStep ==
  (LoopStep /\ currentGameState = WAITING_FOR_INPUT /\ keyDown.pressed
     /\ IsDigit(DownKey) /\ Strlen(answerBuffer) = BufSize - 1) =>
    /\ answerBuffer' = answerBuffer
    /\ currentGameState' = WAITING_FOR_INPUT
    /\ tones' = <<>>

C7_OverflowIgnored == [][C7_OverflowStep]_vars

\* a tenth digit has been scanned and dropped
C7_Witness ==
  /\ currentGameState = WAITING_FOR_INPUT
  /\ evt.pressed /\ IsDigit(EvtKey)
  /\ len = BufSize - 1
  /\ Strlen(answerBuffer) = BufSize - 1
  /\ tones = <<>>

\* C8: '*' scanned in WAITING_FOR_INPUT empties the buffer whatever it held,
\* plays the 220 Hz tone, and changes neither the state nor the question.
C8_ClearStep ==
  (LoopStep /\ currentGameState = WAITING_FOR_INPUT /\ keyDown.pressed
     /\ DownKey = 42) =>
    /\ answerBuffer' = ZeroBuffer
    /\ tones' = <<220>> /\ tones' # <<440>>
    /\ currentGameState' = WAITING_FOR_INPUT
    /\ question' = question

C8_StarClears == [][C8_ClearStep]_vars

\* a full buffer has been cleared
C8_Witness ==
  /\ currentGameState = WAITING_FOR_INPUT
  /\ evt.pressed /\ EvtKey = 42
  /\ len = BufSize - 1
  /\ Strlen(answerBuffer) = 0
  /\ tones = <<220>>

\* C9: correctAnswer = num1 + num2 with both operands in 0..999, always.
C9_QuestionInvariant ==
  /\ correctAnswer = num1 + num2
  /\ num1 \in 0..999
  /\ num2 \in 0..999

\* the largest question, 999 + 999
C9_Witness == num1 = 999 /\ num2 = 999 /\ correctAnswer = 1998

\* C10: the step from GENERATE_NEW_QUESTION to WAITING_FOR_INPUT leaves a
\* generated question, an empty buffer and questionY at 20.
C10_EnterStep ==
  (currentGameState = GENERATE_NEW_QUESTION
     /\ currentGameState' = WAITING_FOR_INPUT) =>
    /\ \E r1, r2 \in RandValues :
         /\ num1' = r1 % 1000 /\ num2' = r2 % 1000
         /\ correctAnswer' = num1' + num2'
         /\ questionStr' = <<num1', num2'>>
    /\ answerBuffer' = ZeroBuffer
    /\ questionY' = 20

C10_FreshRound == [][C10_EnterStep]_vars

\* a round has begun right after a wrong answer: nothing of it is left
C10_Witness ==
  /\ currentGameState = WAITING_FOR_INPUT
  /\ evt = NoEvent
  /\ leds = LedsLevel(255, 0, 0)
  /\ answerBuffer = ZeroBuffer
  /\ questionY = 20

\* C11, as stated: whenever the state is GENERATE_NEW_QUESTION after a check
\* (the result screen is up), the buffer is empty.
C11_ClearedAtReturn ==
  (currentGameState = GENERATE_NEW_QUESTION /\ display.screen = "result") =>
    answerBuffer = ZeroBuffer

\* C11, amended: the CHECK_ANSWER iteration returns to GENERATE_NEW_QUESTION
\* with the submitted answer still in the buffer; the buffer is emptied by the
\* GENERATE_NEW_QUESTION iteration that follows, before any key is scanned.
C11_ReturnStep ==
  /\ (LoopStep /\ currentGameState = CHECK_ANSWER) =>
       /\ currentGameState' = GENERATE_NEW_QUESTION
       /\ answerBuffer' = answerBuffer
  /\ (LoopStep /\ currentGameState = GENERATE_NEW_QUESTION
        /\ display.screen = "result") =>
       /\ answerBuffer' = ZeroBuffer
       /\ evt' = NoEvent

C11_ClearedByGenerate == [][C11_ReturnStep]_vars

\* the check has returned and the answer "75" is still in the buffer
C11_Witness ==
  /\ currentGameState = GENERATE_NEW_QUESTION
  /\ display.screen = "result"
  /\ Chars(answerBuffer) = <<55, 53>>

\* C12: a key other than a digit, 'A' and '*' ('B', 'C', 'D', '#') scanned in
\* WAITING_FOR_INPUT changes neither the state, nor the buffer, nor the
\* question, and plays no tone.
C12_OtherKeyStep ==
  (LoopStep /\ currentGameState = WAITING_FOR_INPUT /\ keyDown.pressed
     /\ DownKey \in {66, 67, 68, 35}) =>
    /\ currentGameState' = WAITING_FOR_INPUT
    /\ answerBuffer' = answerBuffer
    /\ question' = question
    /\ tones' = <<>>

C12_OtherKeysIgnored == [][C12_OtherKeyStep]_vars

\* '#' has been scanned with "75" typed, and "75" is still there
C12_Witness ==
  /\ currentGameState = WAITING_FOR_INPUT
  /\ evt.pressed /\ EvtKey = 35
  /\ len = 2
  /\ Chars(answerBuffer) = <<55, 53>>
  /\ tones = <<>>

\* C13: a key pressed and released with no scan in between (inside a blocking
\* window: the result display, a settle delay) is never served: the step of
\* the player changes neither the buffer nor the state, and the loop
\* iterations that follow find no key; the keypad is scanned in
\* WAITING_FOR_INPUT only.
C13_MissedKeyStep ==
  /\ ~LoopStep =>
       /\ answerBuffer' = answerBuffer
       /\ currentGameState' = currentGameState
  /\ (LoopStep /\ currentGameState # WAITING_FOR_INPUT) => evt' = NoEvent
  /\ (LoopStep /\ currentGameState = WAITING_FOR_INPUT
        /\ (missed.pressed \/ dropped # "no")) =>
       /\ evt' = NoEvent
       /\ answerBuffer' = answerBuffer
       /\ currentGameState' = WAITING_FOR_INPUT
       /\ tones' = <<>>

C13_NoQueuedInput == [][C13_MissedKeyStep]_vars

\* a key went down and up while the keypad was not scanned (result display,
\* new question); the next round has been scanning since and the buffer is empty
C13_Witness ==
  /\ currentGameState = WAITING_FOR_INPUT
  /\ dropped = "window" /\ ~keyDown.pressed
  /\ leds = LedsPulsing
  /\ evt = NoEvent
  /\ answerBuffer = ZeroBuffer

\* the steps of the loop
LoopNext == GenerateNewQuestion \/ WaitingForInput \/ CheckAnswer

\* C14: a loop step is enabled in every reachable state; with the loop running,
\* CHECK_ANSWER leads to GENERATE_NEW_QUESTION and that to WAITING_FOR_INPUT
\* with a generated question and an empty buffer; the three blinks of the
\* failure path are done when the result is on display.
C14_NoStuckState ==
  /\ [](ENABLED LoopNext)
  /\ [](display.text = "Errado! :(" => blinks = 3)
  /\ (currentGameState = CHECK_ANSWER) ~> (currentGameState = GENERATE_NEW_QUESTION)
  /\ (currentGameState = GENERATE_NEW_QUESTION) ~>
       (/\ currentGameState = WAITING_FOR_INPUT
        /\ evt = NoEvent
        /\ answerBuffer = ZeroBuffer
        /\ questionStr = <<num1, num2>>
        /\ correctAnswer = num1 + num2)

\* a wrong answer has been shown, with its three blinks, and the next round runs
C14_Witness ==
  /\ currentGameState = WAITING_FOR_INPUT
  /\ leds = LedsLevel(255, 0, 0)
  /\ display = QuestionScreen
  /\ questionStr # <<>>

\* 10^n
RECURSIVE Pow10(_)
Pow10(n) == IF n = 0 THEN 1 ELSE 10 * Pow10(n - 1)

\* the sum of digit * 10^position over the digits of s from the i-th on,
\* the last digit at position 0
RECURSIVE PositionalSum(_, _)
PositionalSum(s, i) ==
  IF i > Len(s) THEN 0
  ELSE (s[i] - 48) * Pow10(Len(s) - i) + PositionalSum(s, i + 1)

\* C15: the answer compared with correctAnswer is the base-10 value of the
\* digits of the buffer, sum of digit * 10^position: 0 for the empty buffer,
\* 42 for "042"; the empty buffer is checked like any other answer.
C15_ParsedValue ==
  currentGameState = GENERATE_NEW_QUESTION =>
    /\ playerAnswer = PositionalSum(Chars(answerBuffer), 1)
    /\ (Strlen(answerBuffer) = 0 => playerAnswer = 0)
    /\ display.screen = "result"
    /\ (display.text = "Correto! :)") = (playerAnswer = correctAnswer)

\* "042" has been checked as 42
C15_Witness ==
  /\ currentGameState = GENERATE_NEW_QUESTION
  /\ Chars(answerBuffer) = <<48, 52, 50>>
  /\ playerAnswer = 42

\* C16: questionY stays within 12..20; a render pass moves it by exactly 1
\* toward the target (12 with an answer in the buffer, 20 with none), or onto
\* the target from a distance of at most 1, never past it; nothing else moves
\* it but the reset to 20 of a new question.  With an unchanged target it is
\* therefore on the target after at most 8 passes, and stays.
C16_EaseStep ==
  LET target == IF Strlen(answerBuffer') > 0 THEN 12 ELSE 20
      from == IF currentGameState = GENERATE_NEW_QUESTION THEN 20 ELSE questionY
      dist == Abs(target - from)
  IN  /\ (LoopStep /\ renders' = 1) =>
           /\ dist <= 1 => questionY' = target
           /\ dist > 1 => /\ Abs(questionY' - from) = 1
                          /\ Abs(target - questionY') = dist - 1
      /\ (LoopStep /\ renders' = 0) => questionY' = questionY
      /\ ~LoopStep => questionY' = questionY

C16_Easing == [](questionY \in 12..20) /\ [][C16_EaseStep]_vars

\* the question has come up from 20 to 12 under a typed answer
C16_Witness ==
  /\ currentGameState = WAITING_FOR_INPUT
  /\ renders = 1
  /\ Strlen(answerBuffer) = 1
  /\ questionY = 12

\* C17, as stated: every iteration that scans the keypad in WAITING_FOR_INPUT,
\* the one that scans 'A' included, runs the render pass once.
C17_RenderInWaitingStep ==
  (LoopStep /\ currentGameState = WAITING_FOR_INPUT) => renders' = 1

C17_RenderWhereScanned == [][C17_RenderInWaitingStep]_vars

\* C17, amended: the render pass runs once in every iteration that leaves the
\* switch in WAITING_FOR_INPUT (the one that generates the question, and each
\* WAITING_FOR_INPUT iteration that does not scan 'A') and in no other: not in
\* the iteration that scans 'A', not in CHECK_ANSWER.  The result screen
\* drawn by CHECK_ANSWER stays until the GENERATE_NEW_QUESTION iteration.
C17_RenderStep ==
  /\ LoopStep =>
       renders' = IF currentGameState' = WAITING_FOR_INPUT THEN 1 ELSE 0
  /\ (LoopStep /\ currentGameState = WAITING_FOR_INPUT
        /\ keyDown.pressed /\ DownKey = 65) =>
       /\ renders' = 0
       /\ questionY' = questionY
  /\ (LoopStep /\ currentGameState = CHECK_ANSWER) =>
       /\ renders' = 0
       /\ display'.screen = "result"
  /\ (display.screen = "result" /\ display'.screen # "result") =>
       currentGameState = GENERATE_NEW_QUESTION

C17_RenderAfterSwitch == [][C17_RenderStep]_vars

\* 'A' has been scanned while the question was still moving: no render pass,
\* questionY is where it was
C17_Witness ==
  /\ currentGameState = CHECK_ANSWER
  /\ evt.pressed /\ EvtKey = 65
  /\ renders = 0
  /\ questionY = 16

\* C18: num1, num2, correctAnswer and the question text change in the
\* GENERATE_NEW_QUESTION iteration only; the CHECK_ANSWER iteration compares
\* with, and on failure shows, the correctAnswer the round began with.
C18_QuestionStep ==
  /\ question' # question =>
       (LoopStep /\ currentGameState = GENERATE_NEW_QUESTION)
  /\ (LoopStep /\ currentGameState = CHECK_ANSWER) =>
       /\ question' = question
       /\ (display'.text = "Correto! :)") = (playerAnswer' = correctAnswer)
       /\ (display'.text = "Errado! :(" => display'.resp = correctAnswer)

C18_QuestionFixed == [][C18_QuestionStep]_vars

\* a typed answer has been found wrong and the answer of its question is shown
C18_Witness ==
  /\ currentGameState = GENERATE_NEW_QUESTION
  /\ accepted # <<>>
  /\ display = ResultScreen("Errado! :(", num1 + num2)
  /\ questionStr = <<num1, num2>>

\* C19: the buffer holds at most 9 digits, so its value is within
\* 0..999999999, below 2^31; correctAnswer is at most 1998; the int that
\* atoi() returns is that value, and the comparison is the comparison of the
\* values.
C19_NoOverflow ==
  /\ Strlen(answerBuffer) <= 9
  /\ correctAnswer \in 0..1998
  /\ 999999999 <= 2147483647
  /\ Strlen(answerBuffer) <= 9 =>
       LET value == PositionalSum(Chars(answerBuffer), 1)
       IN  /\ value \in 0..999999999
           /\ (currentGameState = GENERATE_NEW_QUESTION /\ display.screen = "result") =>
                /\ playerAnswer = value
                /\ (display.text = "Correto! :)") = (value = correctAnswer)

\* nine digits have been checked
C19_Witness ==
  /\ currentGameState = GENERATE_NEW_QUESTION
  /\ display.screen = "result"
  /\ Strlen(answerBuffer) = 9
  /\ playerAnswer = 777777777

====
